---- MODULE Spec2Model ----
(***************************************************************************)
(* ThermoPro TempSpike XR TP862b / TP863b decoder                          *)
(* (src/devices/thermopro_tp86xb.c, thermopro_tp86xb_decode).              *)
(*                                                                         *)
(* One decode call is modelled as a walk through the statements of the     *)
(* function: the row-count check, the length checks, the sync search, the  *)
(* extraction of the 9-byte window, the two checksum tests, the field      *)
(* extraction, data_make and decoder_output_data.  The capture handed to   *)
(* the call is chosen in Init.                                             *)
(*                                                                         *)
(* Bytes are naturals 0..255, C ints are unbounded integers (no value of   *)
(* the function comes near the int range).  Temperatures are kept in       *)
(* tenths of a degree: (raw - 500) * 0.1f printed with "%.1f" shows        *)
(* exactly (raw - 500) / 10 for every raw in 0..4095.                      *)
(***************************************************************************)
EXTENDS Integers, Sequences, FiniteSets, TLC

VARIABLES bitbuffer, pc, msg_len, offset, b, calc_crc, f, data, sink, ret, log

vars == <<bitbuffer, pc, msg_len, offset, b, calc_crc, f, data, sink, ret, log>>

-----------------------------------------------------------------------------
(* Bounds of the model *)

\* captures hold 0..MaxRows rows
MaxRows == 2
\* row lengths run from 165 - LenSlack to 173 + LenSlack bits
LenSlack == 2
\* bytes of row storage modelled (covers every byte the decoder can read)
RowBytes == 40

-----------------------------------------------------------------------------
(* Integer helpers: C operators on non-negative ints *)

\* 2^n for n in 0..15
Pow2(n) ==
    <<1, 2, 4, 8, 16, 32, 64, 128, 256, 512, 1024, 2048, 4096, 8192, 16384, 32768>>[n + 1]

Word == 0..65535

\* bit n (0 = least significant) of x
Bit(x, n) == (x \div Pow2(n)) % 2

\* the value whose bit n is op[bit n of x, bit n of y], over 16 bits
Bitwise(op, x, y) ==
      op[Bit(x, 0), Bit(y, 0)] + 2 * op[Bit(x, 1), Bit(y, 1)]
    + 4 * op[Bit(x, 2), Bit(y, 2)] + 8 * op[Bit(x, 3), Bit(y, 3)]
    + 16 * op[Bit(x, 4), Bit(y, 4)] + 32 * op[Bit(x, 5), Bit(y, 5)]
    + 64 * op[Bit(x, 6), Bit(y, 6)] + 128 * op[Bit(x, 7), Bit(y, 7)]
    + 256 * op[Bit(x, 8), Bit(y, 8)] + 512 * op[Bit(x, 9), Bit(y, 9)]
    + 1024 * op[Bit(x, 10), Bit(y, 10)] + 2048 * op[Bit(x, 11), Bit(y, 11)]
    + 4096 * op[Bit(x, 12), Bit(y, 12)] + 8192 * op[Bit(x, 13), Bit(y, 13)]
    + 16384 * op[Bit(x, 14), Bit(y, 14)] + 32768 * op[Bit(x, 15), Bit(y, 15)]

XorOp == [p \in {0, 1}, q \in {0, 1} |-> (p + q) % 2]
AndOp == [p \in {0, 1}, q \in {0, 1} |-> p * q]
OrOp  == [p \in {0, 1}, q \in {0, 1} |-> IF p + q > 0 THEN 1 ELSE 0]

XorWord == [p \in Word, q \in Word |-> Bitwise(XorOp, p, q)]
AndWord == [p \in Word, q \in Word |-> Bitwise(AndOp, p, q)]
OrWord  == [p \in Word, q \in Word |-> Bitwise(OrOp, p, q)]

\* x ^ y, x & y, x | y on values below 2^16
BitXor(x, y) == XorWord[x, y]
BitAnd(x, y) == AndWord[x, y]
BitOr(x, y)  == OrWord[x, y]

Shl(x, n) == x * Pow2(n)
Shr(x, n) == x \div Pow2(n)

\* ~x on an int (the operand of ~ is promoted to int before complementing)
IntNot(x) == (-x) - 1

\* conversion to uint8_t
U8(x) == x % 256

-----------------------------------------------------------------------------
(* Return values and diagnostics *)

DECODE_FAIL_SANITY  == "DECODE_FAIL_SANITY"
DECODE_ABORT_LENGTH == "DECODE_ABORT_LENGTH"
DECODE_ABORT_EARLY  == "DECODE_ABORT_EARLY"
DECODE_FAIL_MIC     == "DECODE_FAIL_MIC"
RETURN_1            == "1"
NoReturn            == "running"

LogTooManyRows     == "Too many rows"
LogTooShort        == "Packet too short"
LogTooLong         == "Packet too long"
LogSyncNotFound    == "Sync word not found"
LogChecksumFormat  == "Checksum byte 7 is supposed to be equal to byte 8 inverted"
LogIntegrityFailed == "Integrity check failed"

preamble_pattern == [i \in 0..3 |-> <<210, 85, 45, 212>>[i + 1]]
PreambleBits == 32
WindowBits == 72

-----------------------------------------------------------------------------
(* Library routines the decoder calls (bitbuffer.c, util.c, data.c) *)

\* bit i of a byte array, MSB first
bit_at(bytes, i) == Shr(bytes[i \div 8], 7 - (i % 8)) % 2

\* the pattern_bits_len bits of pattern stand at bit i of the byte array
PatternAt(bits, i, pattern, pattern_bits_len) ==
    \A j \in 0..(pattern_bits_len - 1) : bit_at(bits, i + j) = bit_at(pattern, j)

\* bitbuffer_search(bitbuffer, 0, start, pattern, pattern_bits_len): the offset
\* of the first match that lies wholly inside the row's bits_per_row bits, or
\* bits_per_row when there is none (the result of the scan loop)
bitbuffer_search(bitbuf, start, pattern, pattern_bits_len) ==
    LET len   == bitbuf.bits_per_row
        found == {i \in start..(len - pattern_bits_len) :
                     PatternAt(bitbuf.bb, i, pattern, pattern_bits_len)}
    IN  IF found = {} THEN len
        ELSE CHOOSE i \in found : \A k \in found : i <= k

\* the byte made of the 8 bits of the row storage that start at bit pos
ByteAt(bits, pos) ==
    LET pick(j) == bit_at(bits, pos + j) * Pow2(7 - j)
    IN  pick(0) + pick(1) + pick(2) + pick(3) + pick(4) + pick(5) + pick(6) + pick(7)

\* bitbuffer_extract_bytes(bitbuffer, 0, pos, out, len) for len a multiple of 8:
\* copies len bits of row storage from bit pos on, whatever bits_per_row is
bitbuffer_extract_bytes(bitbuf, pos, len) ==
    [k \in 0..((len \div 8) - 1) |-> ByteAt(bitbuf.bb, pos + 8 * k)]

\* crc8(message, nBytes, polynomial, init): bit-by-bit CRC-8, MSB first; each
\* byte is XORed into the register, which is then shifted 8 times
crc8(message, nBytes, polynomial, init) ==
    LET shift[bit \in 0..8, remainder \in 0..255] ==
            IF bit = 8 THEN remainder
            ELSE shift[bit + 1,
                       IF BitAnd(remainder, 128) # 0
                       THEN BitXor(U8(Shl(remainder, 1)), polynomial)
                       ELSE U8(Shl(remainder, 1))]
        bytes[byte \in 0..nBytes, remainder \in 0..255] ==
            IF byte = nBytes THEN remainder
            ELSE bytes[byte + 1, shift[0, BitXor(remainder, message[byte])]]
    IN  bytes[0, init]

\* one data_make entry
Entry(key, type, int, str) == [key |-> key, type |-> type, int |-> int, str |-> str]

\* DATA_COND: the entry is part of the record only when cond is non-zero
DataCond(cond, entry) == IF cond # 0 THEN <<entry>> ELSE <<>>

\* decoder_output_data: the record is handed to the output sink
decoder_output_data(out, record) == Append(out, record)

-----------------------------------------------------------------------------
(* The expressions of thermopro_tp86xb_decode *)

\* faulty variant: the row-count test off by one
TooManyRows_OffByOne(bitbuf) == bitbuf.num_rows > 2

\* bitbuffer->num_rows > 1
TooManyRows(bitbuf) == bitbuf.num_rows > 1

\* faulty variant: the lower length bound off by one
PacketTooShort_OffByOne(len) == len <= 165

\* msg_len < 165
PacketTooShort(len) == len < 165

\* msg_len > 173
PacketTooLong(len) == len > 173

\* faulty variant: the not-found test off by one
SyncNotFound_OffByOne(off, len) == off > len

\* offset >= msg_len
SyncNotFound(off, len) == off >= len

\* b[7] == ~b[8]: both operands are ints, b[7] in 0..255 and ~b[8] in -256..-1
ChecksumFormatFails(w) == w[7] = IntNot(w[8])

\* faulty variant: the final XOR with 0xdb left out
CalcCrc_NoFinalXor(w) == U8(crc8(w, 7, 7, 0))

\* crc8(b, 7, 0x07, 0x00) ^ 0xdb, stored in a uint8_t
CalcCrc(w) == U8(BitXor(crc8(w, 7, 7, 0), 219))

\* calc_crc != b[7]
IntegrityFails(crc, w) == crc # w[7]

\* lines 93..101 (InternalRaw_LowNibble and IsProbe_AnyBit are faulty variants:
\* the wrong nibble of byte 3, and any role bit instead of both)
Id(w)             == w[0]
IsWhite(w)        == Shr(BitAnd(w[1], 16), 4)
IsDocked(w)       == Shr(BitAnd(w[1], 64), 6)
InternalRaw_LowNibble(w) == BitOr(Shl(w[2], 4), BitAnd(w[3], 15)) % 65536
IsProbe_AnyBit(w) == IF BitAnd(w[6], 12) # 0 THEN 1 ELSE 0
InternalRaw(w)    == BitOr(Shl(w[2], 4), Shr(w[3], 4)) % 65536
AmbientRaw(w)     == BitOr(Shl(BitAnd(w[3], 15), 8), w[4]) % 65536
IsProbe(w)        == IF BitAnd(w[6], 12) = 12 THEN 1 ELSE 0
IsBooster(w)      == IF BitAnd(w[5], 192) = 192 THEN 1 ELSE 0
ProbeBattery(w)   == Shr(BitAnd(w[6], 48), 4)
BoosterBattery(w) == BitAnd(w[6], 3)

\* faulty variant: the subtraction done in uint16_t
TempTenths_Unsigned(raw) == (raw - 500) % 65536

\* (raw - 500) * 0.1f in tenths of a degree; raw is promoted to int, so the
\* subtraction is signed
TempTenths(raw) == raw - 500

\* the local variables of lines 93..105
Fields(w) ==
    [id              |-> Id(w),
     is_white        |-> IsWhite(w),
     is_docked       |-> IsDocked(w),
     internal_raw    |-> InternalRaw(w),
     ambient_raw     |-> AmbientRaw(w),
     is_probe        |-> IsProbe(w),
     is_booster      |-> IsBooster(w),
     probe_battery   |-> ProbeBattery(w),
     booster_battery |-> BoosterBattery(w),
     internal_c      |-> TempTenths(InternalRaw(w)),
     ambient_c       |-> TempTenths(AmbientRaw(w))]

\* data_make(...): the entries in the order of the call; DATA_DOUBLE entries
\* carry the temperature in tenths of a degree
DataMake(v) ==
       <<Entry("model", "DATA_STRING", 0, "ThermoPro-TempSpikeXR"),
         Entry("id", "DATA_INT", v.id, ""),
         Entry("color", "DATA_STRING", 0, IF v.is_white # 0 THEN "white" ELSE "black")>>
    \o DataCond(v.is_docked, Entry("is_docked", "DATA_INT", v.is_docked, ""))
    \o <<Entry("temperature_int_C", "DATA_DOUBLE", v.internal_c, ""),
         Entry("temperature_amb_C", "DATA_DOUBLE", v.ambient_c, "")>>
    \o DataCond(v.is_probe, Entry("is_probe", "DATA_INT", v.is_probe, ""))
    \o DataCond(v.is_booster, Entry("is_booster", "DATA_INT", v.is_booster, ""))
    \o DataCond(v.is_probe, Entry("probe_batery", "DATA_INT", v.probe_battery, ""))
    \o DataCond(v.is_booster, Entry("booster_battery", "DATA_INT", v.booster_battery, ""))
    \o <<Entry("mic", "DATA_STRING", 0, "CRC")>>

-----------------------------------------------------------------------------
(* The statements of thermopro_tp86xb_decode *)

Unset == -1
NoWindow == <<>>
NoFields == [id |-> Unset]
NoData == <<>>

\* return code; with a log line when msg is not ""
Return(code, msg) ==
    /\ pc' = "done"
    /\ ret' = code
    /\ log' = IF msg = "" THEN log ELSE Append(log, msg)

\* lines 55..58
CheckRows ==
    /\ pc = "rows"
    /\ IF TooManyRows(bitbuffer)
       THEN Return(DECODE_FAIL_SANITY, LogTooManyRows)
       ELSE pc' = "length" /\ UNCHANGED <<ret, log>>
    /\ UNCHANGED <<bitbuffer, msg_len, offset, b, calc_crc, f, data, sink>>

\* lines 59..67
CheckLength ==
    /\ pc = "length"
    /\ msg_len' = bitbuffer.bits_per_row
    /\ IF PacketTooShort(msg_len')
       THEN Return(DECODE_ABORT_LENGTH, LogTooShort)
       ELSE IF PacketTooLong(msg_len')
            THEN Return(DECODE_ABORT_LENGTH, LogTooLong)
            ELSE pc' = "search" /\ UNCHANGED <<ret, log>>
    /\ UNCHANGED <<bitbuffer, offset, b, calc_crc, f, data, sink>>

\* lines 69..75
SearchSync ==
    /\ pc = "search"
    /\ offset' = bitbuffer_search(bitbuffer, 0, preamble_pattern, PreambleBits)
    /\ IF SyncNotFound(offset', msg_len)
       THEN Return(DECODE_ABORT_EARLY, LogSyncNotFound)
       ELSE pc' = "extract" /\ UNCHANGED <<ret, log>>
    /\ UNCHANGED <<bitbuffer, msg_len, b, calc_crc, f, data, sink>>

\* lines 77..78
ExtractWindow ==
    /\ pc = "extract"
    /\ offset' = offset + PreambleBits
    /\ b' = bitbuffer_extract_bytes(bitbuffer, offset', WindowBits)
    /\ pc' = "format"
    /\ UNCHANGED <<bitbuffer, msg_len, calc_crc, f, data, sink, ret, log>>

\* lines 80..84
CheckFormat ==
    /\ pc = "format"
    /\ IF ChecksumFormatFails(b)
       THEN Return(DECODE_FAIL_MIC, LogChecksumFormat)
       ELSE pc' = "crc" /\ UNCHANGED <<ret, log>>
    /\ UNCHANGED <<bitbuffer, msg_len, offset, b, calc_crc, f, data, sink>>

\* lines 86..91
CheckCrc ==
    /\ pc = "crc"
    /\ calc_crc' = CalcCrc(b)
    /\ IF IntegrityFails(calc_crc', b)
       THEN Return(DECODE_FAIL_MIC, LogIntegrityFailed)
       ELSE pc' = "fields" /\ UNCHANGED <<ret, log>>
    /\ UNCHANGED <<bitbuffer, msg_len, offset, b, f, data, sink>>

\* lines 93..105
ExtractFields ==
    /\ pc = "fields"
    /\ f' = Fields(b)
    /\ pc' = "make"
    /\ UNCHANGED <<bitbuffer, msg_len, offset, b, calc_crc, data, sink, ret, log>>

\* lines 108..120
BuildRecord ==
    /\ pc = "make"
    /\ data' = DataMake(f)
    /\ pc' = "output"
    /\ UNCHANGED <<bitbuffer, msg_len, offset, b, calc_crc, f, sink, ret, log>>

\* faulty variant: the record is never handed to the sink
Output_NoEmit ==
    /\ pc = "output"
    /\ Return(RETURN_1, "")
    /\ UNCHANGED <<bitbuffer, msg_len, offset, b, calc_crc, f, data, sink>>

\* lines 123..124
Output ==
    /\ pc = "output"
    /\ sink' = decoder_output_data(sink, data)
    /\ Return(RETURN_1, "")
    /\ UNCHANGED <<bitbuffer, msg_len, offset, b, calc_crc, f, data>>

-----------------------------------------------------------------------------
(* The captures handed to the decoder *)

Bool == {FALSE, TRUE}

\* row lengths around the accepted band 165..173
Lens == (165 - LenSlack)..(173 + LenSlack)

\* bit offsets at which a capture carries the sync pattern; NoSync: none
NoSync == 0 - 1
SyncOffsets == {0, 3, 61, 62, 69, 70, 77, 134, 141}

\* payload bytes 0..6 of the frames a device sends
Payloads ==
    { <<156, 154,  43, 194, 197,  11,  31>>,    \* 9c 9a 2b c2 c5 0b 1f (probe)
      <<156, 154,  43, 194, 197, 203,  17>>,    \* 9c 9a 2b c2 c5 cb 11 (booster)
      <<  0,   0,   0,   0,   0,   0,   0>>,    \* raw 0, no role
      <<255, 255, 255, 255, 255, 255, 255>>,    \* raw 4095, both roles
      << 18,  64,  31,  65, 243, 192,  44>>,    \* docked, black, 500 / 499
      <<165,  80,  42,  18, 169,  64,  56>> }   \* white, docked, 673 / 681

\* the checksum byte the device stores in byte 7: [CRC-8] of bytes 0..6,
\* poly 0x07, init 0x00, XOR 0xdb
DeviceChecksum(w) == BitXor(crc8(w, 7, 7, 0), 219)

\* the 8-bit complement the device stores in byte 8: [~CRC-8]
Complement8(x) == 255 - x

\* bytes 0..6 with bit i (0 = MSB of byte 0) flipped
FlipBit(w, i) ==
    [k \in DOMAIN w |-> IF k = i \div 8 THEN BitXor(w[k], Pow2(7 - (i % 8))) ELSE w[k]]

Payload0(t) == [k \in 0..6 |-> t[k + 1]]

\* the 9-byte window: the payload, then bytes 7 and 8
Window(payload, c7, c8) ==
    [k \in 0..8 |-> IF k < 7 THEN payload[k] ELSE IF k = 7 THEN c7 ELSE c8]

\* the frame as the device sends it
ValidWindow(p) == Window(p, DeviceChecksum(p), Complement8(DeviceChecksum(p)))

ValidWindows == {ValidWindow(Payload0(t)) : t \in Payloads}

\* valid frames whose byte 8 is not the complement of byte 7
BadFormatWindowsOf(p) ==
    {Window(p, DeviceChecksum(p), b8) : b8 \in {0, 255, DeviceChecksum(p)}}

BadFormatWindows == UNION {BadFormatWindowsOf(Payload0(t)) : t \in Payloads}

\* frames whose byte 7 is not the device checksum: the bare CRC-8, the
\* checksum with one bit wrong, the checksum inverted
BadCrcWindowsOf(p) ==
    UNION {{Window(p, b7, b8) : b8 \in {Complement8(b7), 0, b7}} :
              b7 \in {crc8(p, 7, 7, 0), BitXor(DeviceChecksum(p), 1),
                      Complement8(DeviceChecksum(p))}}

BadCrcWindows == UNION {BadCrcWindowsOf(Payload0(t)) : t \in Payloads}

\* valid frames with one of the 56 bits of bytes 0..6 flipped in transit
FlippedWindows ==
    {Window(FlipBit(Payload0(t), i), DeviceChecksum(Payload0(t)),
            Complement8(DeviceChecksum(Payload0(t)))) :
        t \in Payloads, i \in 0..55}

\* bit i of a row of len bits: filler, then the sync pattern at bit sync (its
\* last bit flipped when broken), then the window, then a second sync pattern
\* when again; storage past the row's last bit is zero
RowBit(i, len, sync, fill, broken, again, w) ==
    LET filler == IF fill = 0 THEN 0 ELSE (i + 1) % 2
        rel    == i - sync
    IN  IF i >= len THEN 0
        ELSE IF sync = NoSync \/ rel < 0 THEN filler
        ELSE IF rel < PreambleBits
             THEN IF broken /\ rel = PreambleBits - 1
                  THEN 1 - bit_at(preamble_pattern, rel)
                  ELSE bit_at(preamble_pattern, rel)
        ELSE IF rel < PreambleBits + WindowBits THEN bit_at(w, rel - PreambleBits)
        ELSE IF again /\ rel < 2 * PreambleBits + WindowBits
             THEN bit_at(preamble_pattern, rel - (PreambleBits + WindowBits))
        ELSE 0

Capture(rows, len, sync, fill, broken, again, w) ==
    [num_rows     |-> rows,
     bits_per_row |-> len,
     bb           |-> [k \in 0..(RowBytes - 1) |->
                         LET pick(j) == RowBit(8 * k + j, len, sync, fill, broken, again, w)
                                          * Pow2(7 - j)
                         IN  pick(0) + pick(1) + pick(2) + pick(3)
                               + pick(4) + pick(5) + pick(6) + pick(7)]]

\* a cleared bitbuffer: no row, row 0 empty
EmptyCapture == Capture(0, 0, NoSync, 0, FALSE, FALSE, ValidWindow(Payload0(<<0, 0, 0, 0, 0, 0, 0>>)))

\* captures that vary the framing: row count, row length, place of the sync
FramingCaptures ==
    {Capture(rows, len, sync, fill, broken, again, w) :
        rows \in 1..MaxRows, len \in Lens, sync \in SyncOffsets \cup {NoSync},
        fill \in {0, 1}, broken \in Bool, again \in Bool,
        w \in ValidWindows}

\* captures that vary the window: one row, sync near the start
WindowCaptures ==
    {Capture(1, len, sync, 0, FALSE, FALSE, w) :
        len \in {165, 173}, sync \in {0, 3},
        w \in ValidWindows \cup BadFormatWindows \cup BadCrcWindows \cup FlippedWindows}

Captures == {EmptyCapture} \cup FramingCaptures \cup WindowCaptures

-----------------------------------------------------------------------------

Init ==
    /\ bitbuffer \in Captures
    /\ pc = "rows"
    /\ msg_len = Unset
    /\ offset = Unset
    /\ b = NoWindow
    /\ calc_crc = Unset
    /\ f = NoFields
    /\ data = NoData
    /\ sink = <<>>
    /\ ret = NoReturn
    /\ log = <<>>

Next ==
    \/ CheckRows
    \/ CheckLength
    \/ SearchSync
    \/ ExtractWindow
    \/ CheckFormat
    \/ CheckCrc
    \/ ExtractFields
    \/ BuildRecord
    \/ Output

Spec == Init /\ [][Next]_vars

-----------------------------------------------------------------------------
(* Vocabulary of the properties *)

Done == pc = "done"
WindowRead == b # NoWindow
FieldsRead == f # NoFields
OneRow == bitbuffer.num_rows = 1
LengthInBand == bitbuffer.bits_per_row \in 165..173

\* the bytes D2 55 2D D4 stand at bit i of row 0, inside its bits_per_row bits
SyncAt(i) ==
    /\ i + 32 <= bitbuffer.bits_per_row
    /\ ByteAt(bitbuffer.bb, i) = 210
    /\ ByteAt(bitbuffer.bb, i + 8) = 85
    /\ ByteAt(bitbuffer.bb, i + 16) = 45
    /\ ByteAt(bitbuffer.bb, i + 24) = 212

SyncPlaces == {i \in 0..(bitbuffer.bits_per_row - 32) : SyncAt(i)}
HasSync == SyncPlaces # {}
FirstSync == CHOOSE i \in SyncPlaces : \A k \in SyncPlaces : i <= k

\* the 72-bit window after the first sync pattern does not fit in the row
WindowPastEnd == HasSync /\ FirstSync + 32 + 72 > bitbuffer.bits_per_row

Logged(msg) == \E n \in 1..Len(log) : log[n] = msg
HasKey(record, key) == \E n \in 1..Len(record) : record[n].key = key

\* bytes 0..6 of the window
PayloadOf(w) == [k \in 0..6 |-> w[k]]

ExampleWindow == Window(Payload0(<<156, 154, 43, 194, 197, 11, 31>>), 168, 87)

-----------------------------------------------------------------------------
(* C1 *)

\* C1: whenever the decoder has read a window whose byte 8 is not the 8-bit
\* complement of byte 7, the call fails with DECODE_FAIL_MIC and no record is
\* emitted, also when byte 7 is CRC8(bytes 0..6) XOR 0xDB.
C1_ComplementRequired ==
    (Done /\ WindowRead /\ b[8] # Complement8(b[7]))
        => (ret = DECODE_FAIL_MIC /\ sink = <<>>)

-----------------------------------------------------------------------------
(* C2 *)

\* C2: when the sync pattern is matched and the 72-bit window after it would
\* exceed the row, the call fails as too short and no byte is extracted.
C2_WindowMustFit ==
    (OneRow /\ LengthInBand /\ WindowPastEnd)
        => /\ ~WindowRead
           /\ Done => (ret = DECODE_ABORT_LENGTH /\ Logged(LogTooShort))

-----------------------------------------------------------------------------
(* C3 *)

\* C3: a decode succeeds only if byte 7 is CRC-8(bytes 0..6) XOR 0xDB, and a
\* valid frame with any one of the 56 bits of bytes 0..6 flipped fails with
\* DECODE_FAIL_MIC from the CRC comparison and emits no record.
C3_CrcRejects ==
    /\ (Done /\ ret = RETURN_1) => b[7] = DeviceChecksum(PayloadOf(b))
    /\ (Done /\ WindowRead /\ b \in FlippedWindows)
          => (ret = DECODE_FAIL_MIC /\ Logged(LogIntegrityFailed) /\ sink = <<>>)

C3_Witness ==
    Done /\ WindowRead /\ b \in FlippedWindows /\ ret = DECODE_FAIL_MIC

-----------------------------------------------------------------------------
(* C4 *)

\* C4 as claimed: the window 9c 9a 2b c2 c5 0b 1f a8 57 is accepted and gives
\* id 0x9c, internal_raw 0x2bc and an internal temperature of 17.6 degrees.
C4_Example_17_6 ==
    (Done /\ WindowRead /\ b = ExampleWindow)
        => /\ ret = RETURN_1
           /\ calc_crc = 168
           /\ f.id = 156
           /\ f.internal_raw = 700
           /\ f.internal_c = 176

\* C4 amended: the window 9c 9a 2b c2 c5 0b 1f a8 57 is accepted (0xa8 is the
\* computed checksum) and gives id 0x9c, internal_raw 0x2bc = 700 and an
\* internal temperature of (700 - 500) * 0.1 = 20.0 degrees, reported in the
\* record as temperature_int_C.
C4_Example_20_0 ==
    (Done /\ WindowRead /\ b = ExampleWindow)
        => /\ ret = RETURN_1
           /\ calc_crc = 168
           /\ f.id = 156
           /\ f.internal_raw = 700
           /\ f.internal_c = 200
           /\ \E n \in 1..Len(data) :
                  data[n].key = "temperature_int_C" /\ data[n].int = 200

C4_Witness == Done /\ WindowRead /\ b = ExampleWindow /\ ret = RETURN_1

-----------------------------------------------------------------------------
(* C5 *)

\* C5: for a one-row capture, a length below 165 fails as too short and a
\* length above 173 fails as too long, both before any sync search; a length
\* in 165..173 passes the length checks and reaches the sync search.
C5_LengthPolicy ==
    OneRow =>
        /\ bitbuffer.bits_per_row < 165 =>
              /\ offset = Unset
              /\ Done => (ret = DECODE_ABORT_LENGTH /\ log = <<LogTooShort>>)
        /\ bitbuffer.bits_per_row > 173 =>
              /\ offset = Unset
              /\ Done => (ret = DECODE_ABORT_LENGTH /\ log = <<LogTooLong>>)
        /\ (LengthInBand /\ Done) =>
              /\ offset # Unset
              /\ ret # DECODE_ABORT_LENGTH
              /\ ~Logged(LogTooShort)
              /\ ~Logged(LogTooLong)

C5_Witness ==
    OneRow /\ Done /\ bitbuffer.bits_per_row = 174 /\ ret = DECODE_ABORT_LENGTH

-----------------------------------------------------------------------------
(* C6 *)

\* C6: for a one-row capture of 165..173 bits the call ends with
\* DECODE_ABORT_EARLY exactly when D2 55 2D D4 stands at no bit offset of the
\* row; otherwise the window is the 9 bytes right after the first occurrence.
C6_SyncSearch ==
    (OneRow /\ LengthInBand /\ Done) =>
        /\ (ret = DECODE_ABORT_EARLY) <=> ~HasSync
        /\ ~HasSync => (log = <<LogSyncNotFound>> /\ ~WindowRead)
        /\ HasSync =>
              /\ WindowRead
              /\ \A k \in 0..8 : b[k] = ByteAt(bitbuffer.bb, FirstSync + 32 + 8 * k)

C6_Witness ==
    OneRow /\ LengthInBand /\ Done /\ SyncAt(0) /\ WindowRead /\ b \in ValidWindows

-----------------------------------------------------------------------------
(* C7 *)

\* C7: in every emitted record probe_batery is present exactly when
\* (byte 6 & 0x0c) == 0x0c, booster_battery exactly when
\* (byte 5 & 0xc0) == 0xc0, and is_docked exactly when byte 1 & 0x40 is set.
C7_ConditionalFields ==
    \A n \in 1..Len(sink) :
        /\ HasKey(sink[n], "probe_batery") <=> (b[6] \div 4) % 4 = 3
        /\ HasKey(sink[n], "booster_battery") <=> b[5] \div 64 = 3
        /\ HasKey(sink[n], "is_docked") <=> (b[1] \div 64) % 2 = 1

C7_Witness ==
    /\ Len(sink) = 1
    /\ HasKey(sink[1], "probe_batery")
    /\ ~HasKey(sink[1], "booster_battery")
    /\ ~HasKey(sink[1], "is_docked")

-----------------------------------------------------------------------------
(* C8 *)

\* C8: the record reaches the sink exactly once when the call returns 1 and
\* never when it fails; a failing stage ends the call, so no later stage has
\* run.
C8_OutputOnce ==
    /\ Len(sink) <= 1
    /\ ~Done => (ret = NoReturn /\ sink = <<>>)
    /\ Done => (ret = RETURN_1 <=> Len(sink) = 1)
    /\ Done => ret \in {RETURN_1, DECODE_FAIL_SANITY, DECODE_ABORT_LENGTH,
                        DECODE_ABORT_EARLY, DECODE_FAIL_MIC}
    /\ ret = RETURN_1 => (sink = <<data>> /\ log = <<>>)
    /\ ret = DECODE_FAIL_SANITY => msg_len = Unset
    /\ ret = DECODE_ABORT_LENGTH => offset = Unset
    /\ ret = DECODE_ABORT_EARLY => ~WindowRead
    /\ ret = DECODE_FAIL_MIC => (~FieldsRead /\ data = NoData)
    /\ ret \notin {RETURN_1, NoReturn} => Len(log) = 1

C8_Witness == Done /\ ret = RETURN_1 /\ Len(sink) = 1

-----------------------------------------------------------------------------
(* C9 *)

\* C9: with more than one row the call fails with DECODE_FAIL_SANITY before
\* any row length or bit is read; a successful decode has exactly one row.
C9_TooManyRows ==
    /\ bitbuffer.num_rows > 1 =>
          /\ msg_len = Unset /\ offset = Unset /\ ~WindowRead
          /\ Done => (ret = DECODE_FAIL_SANITY /\ log = <<LogTooManyRows>>)
    /\ ret = RETURN_1 => bitbuffer.num_rows = 1

C9_Witness ==
    /\ Done /\ bitbuffer.num_rows = 2 /\ ret = DECODE_FAIL_SANITY
    /\ LengthInBand /\ HasSync

-----------------------------------------------------------------------------
(* C10 *)

\* C10: the extracted values follow the layout and stay in range:
\* internal_raw = byte 2 * 16 + (byte 3 >> 4) and
\* ambient_raw = (byte 3 & 0x0f) * 256 + byte 4 lie in 0..4095, both battery
\* levels in 0..3, and each temperature is raw - 500 tenths of a degree as a
\* signed value, from -50.0 for raw 0 to +359.5 for raw 4095.
C10_FieldRanges ==
    FieldsRead =>
        /\ f.internal_raw = b[2] * 16 + (b[3] \div 16)
        /\ f.ambient_raw = (b[3] % 16) * 256 + b[4]
        /\ f.internal_raw \in 0..4095
        /\ f.ambient_raw \in 0..4095
        /\ f.probe_battery = (b[6] \div 16) % 4
        /\ f.booster_battery = b[6] % 4
        /\ f.probe_battery \in 0..3
        /\ f.booster_battery \in 0..3
        /\ f.internal_c = f.internal_raw - 500
        /\ f.ambient_c = f.ambient_raw - 500
        /\ f.internal_c \in (0 - 500)..3595
        /\ f.ambient_c \in (0 - 500)..3595
        /\ f.internal_raw = 0 => f.internal_c = 0 - 500
        /\ f.internal_raw = 4095 => f.internal_c = 3595

C10_Witness ==
    FieldsRead /\ f.internal_raw = 0 /\ f.internal_c = 0 - 500 /\ f.ambient_c = 0 - 500

====
